---------------------------- MODULE Spec2Model ----------------------------
(***************************************************************************)
(* Boid flocking sketch ("2026" text formation): the frame loop animate(), *)
(* the mode controller (isScattered / scatterTimer), the steering          *)
(* calculator and the integrator of class Boid, and the pointer event      *)
(* handlers.                                                               *)
(*                                                                         *)
(* Numbers.  The sketch computes with JavaScript doubles.  The model uses  *)
(* fixed-point integers: one unit is 1/Scale (a hundredth), every division *)
(* truncates toward zero, and a vector length used as a divisor is rounded *)
(* up, so that a rescaled vector is never longer than the requested        *)
(* length.  A configuration value c of the source appears as c * Scale.    *)
(***************************************************************************)
EXTENDS Integers, Sequences, FiniteSets, TLC

(***************************************************************************)
(* Bounds of the model                                                     *)
(***************************************************************************)
\* Number of agents of the swarm (CONFIG.numBoids is 500 in the sketch).
NumBoids == 2
\* Number of pointer events (mousemove / mouseenter / mouseleave) in a run
\* that change the pointer state.
MaxMouseEvents == 2
\* Number of times a run goes from Formed to Scattered.
MaxScatters == 1

(***************************************************************************)
(* Fixed-point representation and CONFIG                                   *)
(***************************************************************************)
Scale == 100

maxSpeed == 200
maxForce == 5
separationRadius == 2500
alignmentRadius == 5000
cohesionRadius == 5000
separationWeight == 150
alignmentWeight == 100
cohesionWeight == 100
mouseRepelRadius == 5000
mouseRepelStrength == 300
boundarySize == 30000
\* animate(): "boid.position.distanceTo(mousePos) < 30"
collisionDistance == 3000
\* frames
SCATTER_DURATION == 180
\* flock(): position.lerp(homePosition, 0.1)
homeLerp == 10
\* update(): damping factors and the distance bands that select them
dampNear == 85
dampMid == 95
dampNearDist == 2000
dampMidDist == 5000
\* mouseRepel(): clampLength(0, maxForce * 4)
mouseForceFactor == 4
\* let mousePos = new THREE.Vector3(9999, 9999, 9999)
mouseOffScreen == 999900
homeAttractionStrength == 120

Boids == 1..NumBoids

(***************************************************************************)
(* Scalar arithmetic                                                       *)
(***************************************************************************)
Abs(n) == IF n < 0 THEN -n ELSE n

Max2(a, b) == IF a >= b THEN a ELSE b

\* Division truncating toward zero (d > 0).
TruncDiv(n, d) == IF n >= 0 THEN n \div d ELSE -((-n) \div d)

\* The greatest r in lo..hi with r * r <= n  (0 <= n < 2^31, hi <= 46340).
RECURSIVE SqrtSearch(_, _, _)
SqrtSearch(n, lo, hi) ==
  IF lo >= hi THEN lo
  ELSE LET mid == (lo + hi + 1) \div 2
       IN IF mid * mid <= n THEN SqrtSearch(n, mid, hi)
                            ELSE SqrtSearch(n, lo, mid - 1)

FloorSqrt(n) == SqrtSearch(n, 0, 46340)

CeilSqrt(n) == LET r == FloorSqrt(n) IN IF r * r = n THEN r ELSE r + 1

(***************************************************************************)
(* THREE.Vector3                                                           *)
(***************************************************************************)
Vec(a, b, c) == [x |-> a, y |-> b, z |-> c]

Zero == Vec(0, 0, 0)

VAdd(a, b) == Vec(a.x + b.x, a.y + b.y, a.z + b.z)

VSub(a, b) == Vec(a.x - b.x, a.y - b.y, a.z - b.z)

\* multiplyScalar(num / den)
VMul(v, num, den) ==
  Vec(TruncDiv(v.x * num, den), TruncDiv(v.y * num, den), TruncDiv(v.z * num, den))

\* divideScalar(n)
VDiv(v, n) == Vec(TruncDiv(v.x, n), TruncDiv(v.y, n), TruncDiv(v.z, n))

MaxAbs(v) == Max2(Abs(v.x), Max2(Abs(v.y), Abs(v.z)))

\* lengthSq()
LengthSq(v) == v.x * v.x + v.y * v.y + v.z * v.z

\* length() < r, for r > 0; the componentwise test keeps the squares small.
ShorterThan(v, r) == MaxAbs(v) < r /\ LengthSq(v) < r * r

\* length() <= r
NotLongerThan(v, r) == MaxAbs(v) <= r /\ LengthSq(v) <= r * r

\* a.distanceTo(b) < r
Within(a, b, r) == ShorterThan(VSub(a, b), r)

\* A vector of the same direction whose largest component is within
\* 1000..20000, so that its squared length is exact enough and fits.
Rescaled(v) ==
  LET m == MaxAbs(v)
  IN IF m = 0 THEN v
     ELSE IF m > 20000 THEN VDiv(v, (m \div 20000) + 1)
     ELSE IF m < 1000 THEN VMul(v, 1000 \div m, 1)
     ELSE v

\* normalize().multiplyScalar(len): the zero vector stays zero.
SetLength(v, len) ==
  IF v = Zero THEN Zero
  ELSE LET w == Rescaled(v)
       IN VMul(w, len, CeilSqrt(LengthSq(w)))

\* clampLength(0, max)
ClampLength(v, max) ==
  IF NotLongerThan(v, max) THEN v ELSE SetLength(v, max)

\* lerp stepping away from its target.
Lerp_Away(a, b, alpha) == VAdd(a, VMul(VSub(a, b), alpha, Scale))

\* a.lerp(b, alpha / Scale)
Lerp(a, b, alpha) == VAdd(a, VMul(VSub(b, a), alpha, Scale))


\* The sum of the vectors f[j], j in DOMAIN f.
RECURSIVE VSum(_)
VSum(f) ==
  IF DOMAIN f = {} THEN Zero
  ELSE LET j == CHOOSE k \in DOMAIN f : TRUE
       IN VAdd(f[j], VSum([k \in DOMAIN f \ {j} |-> f[k]]))

(***************************************************************************)
(* Target shape generator and construction                                 *)
(***************************************************************************)
\* Sampled text pixels <<x, y>> of the 400 x 100 canvas (even coordinates)
\* with the z variation drawn for each, in units.
TextPixels ==
  << <<200, 50, 0>>, <<244, 50, 300>>, <<120, 30, -500>>, <<290, 64, 1200>> >>

\* generateTextPositions(): ((x - 200) * 1.5, (50 - y) * 1.5, z)
TextPosition(i) ==
  LET p == TextPixels[i]
  IN Vec(((p[1] - 200) * 3 * Scale) \div 2, ((50 - p[2]) * 3 * Scale) \div 2, p[3])

\* Directions of the random initial velocity, already of length
\* maxSpeed * 0.5.
InitialVelocities == { Vec(100, 0, 0), Vec(-60, 80, 0), Vec(0, 0, -100) }

\* new Boid(homePos)
NewBoid(homePos, vel) ==
  [ homePosition |-> homePos,
    position     |-> homePos,
    velocity     |-> vel,
    acceleration |-> Zero,
    isNearMouse  |-> FALSE ]

(***************************************************************************)
(* Steering calculator                                                     *)
(***************************************************************************)
\* The agents the loops of separation/alignment/cohesion let contribute to
\* agent i: another agent at a distance d with 0 < d < radius.
Neighbours(bs, i, radius) ==
  { j \in DOMAIN bs \ {i} :
      /\ bs[j].position # bs[i].position
      /\ Within(bs[i].position, bs[j].position, radius) }

\* seek(target)
seek(b, target) ==
  LET desired == SetLength(VSub(target, b.position), maxSpeed)
  IN ClampLength(VSub(desired, b.velocity), maxForce)

\* separation() without the final clampLength.
separation_NoClamp(bs, i) ==
  LET ns == Neighbours(bs, i, separationRadius)
      diff(j) == VSub(bs[i].position, bs[j].position)
      steer == VSum([j \in ns |-> VMul(diff(j), 250000, LengthSq(diff(j)))])
  IN IF ns = {} THEN Zero
     ELSE VSub(SetLength(VDiv(steer, Cardinality(ns)), maxSpeed), bs[i].velocity)

\* separation(boids)
separation(bs, i) ==
  LET ns == Neighbours(bs, i, separationRadius)
      diff(j) == VSub(bs[i].position, bs[j].position)
      \* diff.normalize().divideScalar(d), kept at a scale of 250000
      steer == VSum([j \in ns |-> VMul(diff(j), 250000, LengthSq(diff(j)))])
  IN IF ns = {} THEN Zero
     ELSE ClampLength(
            VSub(SetLength(VDiv(steer, Cardinality(ns)), maxSpeed),
                 bs[i].velocity),
            maxForce)

\* alignment() steering whatever the neighbour count, an empty
\* neighbourhood averaged as over one.
alignment_NoCountGuard(bs, i) ==
  LET ns == Neighbours(bs, i, alignmentRadius)
      avgVelocity == VDiv(VSum([j \in ns |-> bs[j].velocity]),
                          Max2(Cardinality(ns), 1))
  IN ClampLength(
       VSub(SetLength(avgVelocity, maxSpeed), bs[i].velocity), maxForce)

\* alignment(boids)
alignment(bs, i) ==
  LET ns == Neighbours(bs, i, alignmentRadius)
      avgVelocity == VDiv(VSum([j \in ns |-> bs[j].velocity]), Cardinality(ns))
  IN IF ns = {} THEN Zero
     ELSE ClampLength(
            VSub(SetLength(avgVelocity, maxSpeed), bs[i].velocity), maxForce)

\* cohesion(boids)
cohesion(bs, i) ==
  LET ns == Neighbours(bs, i, cohesionRadius)
      centerOfMass == VDiv(VSum([j \in ns |-> bs[j].position]), Cardinality(ns))
  IN IF ns = {} THEN Zero ELSE seek(bs[i], centerOfMass)

\* seekHome()
seekHome(b) == VMul(seek(b, b.homePosition), homeAttractionStrength, Scale)

\* The guard of mouseRepel() without "d > 0".
InRepelRange_NoZeroGuard(b, mousePosition) ==
  Within(b.position, mousePosition, mouseRepelRadius)

\* The guard of mouseRepel(): d < mouseRepelRadius && d > 0
InRepelRange(b, mousePosition) ==
  /\ Within(b.position, mousePosition, mouseRepelRadius)
  /\ b.position # mousePosition

\* mouseRepel() without the final clampLength(0, maxForce * 4).
mouseRepel_NoClamp(b, mousePosition) ==
  IF InRepelRange(b, mousePosition)
  THEN LET flee == VSub(b.position, mousePosition)
           d == FloorSqrt(LengthSq(flee))
           strength == mouseRepelStrength
                         - TruncDiv(mouseRepelStrength * d, mouseRepelRadius)
       IN SetLength(flee, strength)
  ELSE Zero

\* mouseRepel(mousePosition): the force returned
mouseRepel(b, mousePosition) ==
  IF InRepelRange(b, mousePosition)
  THEN LET flee == VSub(b.position, mousePosition)
           d == FloorSqrt(LengthSq(flee))
           strength == mouseRepelStrength
                         - TruncDiv(mouseRepelStrength * d, mouseRepelRadius)
       IN ClampLength(SetLength(flee, strength), maxForce * mouseForceFactor)
  ELSE Zero

(***************************************************************************)
(* Boid.flock and Boid.update                                              *)
(***************************************************************************)
\* "const sep = this.separation(boids).multiplyScalar(separationWeight)"
sepForce(bs, i) == VMul(separation(bs, i), separationWeight, Scale)

\* "const ali = this.alignment(boids).multiplyScalar(alignmentWeight)"
aliForce(bs, i) == VMul(alignment(bs, i), alignmentWeight, Scale)

\* "const coh = this.cohesion(boids).multiplyScalar(cohesionWeight)"
cohForce(bs, i) == VMul(cohesion(bs, i), cohesionWeight, Scale)

\* flock() without "this.velocity.set(0, 0, 0)" in the Formed branch.
flock_KeepsVelocity(bs, i, mousePosition, isMouseActive, scattered) ==
  LET b == bs[i]
      sep == sepForce(bs, i)
      ali == aliForce(bs, i)
      coh == cohForce(bs, i)
      b1 == IF scattered
            THEN [b EXCEPT !.acceleration = VAdd(VAdd(VAdd(b.acceleration, sep), ali), coh)]
            ELSE [b EXCEPT !.position = Lerp(b.position, b.homePosition, homeLerp)]
  IN IF isMouseActive
     THEN [b1 EXCEPT !.isNearMouse = b1.isNearMouse \/ InRepelRange(b1, mousePosition),
                     !.acceleration = VAdd(b1.acceleration, mouseRepel(b1, mousePosition))]
     ELSE b1

\* flock() stepping the position toward home in both modes.
flock_SnapsAlways(bs, i, mousePosition, isMouseActive, scattered) ==
  LET b == bs[i]
      sep == sepForce(bs, i)
      ali == aliForce(bs, i)
      coh == cohForce(bs, i)
      b1 == IF scattered
            THEN [b EXCEPT !.acceleration = VAdd(VAdd(VAdd(b.acceleration, sep), ali), coh),
                           !.position = Lerp(b.position, b.homePosition, homeLerp)]
            ELSE [b EXCEPT !.velocity = Zero,
                           !.position = Lerp(b.position, b.homePosition, homeLerp)]
  IN IF isMouseActive
     THEN [b1 EXCEPT !.isNearMouse = b1.isNearMouse \/ InRepelRange(b1, mousePosition),
                     !.acceleration = VAdd(b1.acceleration, mouseRepel(b1, mousePosition))]
     ELSE b1

\* flock() calling seekHome() and applying it in every frame.
flock_SeeksHome(bs, i, mousePosition, isMouseActive, scattered) ==
  LET b == bs[i]
      sep == sepForce(bs, i)
      ali == aliForce(bs, i)
      coh == cohForce(bs, i)
      b1 == IF scattered
            THEN [b EXCEPT !.acceleration = VAdd(VAdd(VAdd(b.acceleration, sep), ali), coh)]
            ELSE [b EXCEPT !.velocity = Zero,
                           !.position = Lerp(b.position, b.homePosition, homeLerp)]
      b2 == [b1 EXCEPT !.acceleration = VAdd(b1.acceleration, seekHome(b))]
  IN IF isMouseActive
     THEN [b2 EXCEPT !.isNearMouse = b2.isNearMouse \/ InRepelRange(b2, mousePosition),
                     !.acceleration = VAdd(b2.acceleration, mouseRepel(b2, mousePosition))]
     ELSE b2

\* flock() applying seekHome() as a fourth force when scattered.
flock_HomeWhenScattered(bs, i, mousePosition, isMouseActive, scattered) ==
  LET b == bs[i]
      sep == sepForce(bs, i)
      ali == aliForce(bs, i)
      coh == cohForce(bs, i)
      b1 == IF scattered
            THEN [b EXCEPT !.acceleration =
                    VAdd(VAdd(VAdd(VAdd(b.acceleration, sep), ali), coh),
                         seekHome(b))]
            ELSE [b EXCEPT !.velocity = Zero,
                           !.position = Lerp(b.position, b.homePosition, homeLerp)]
  IN IF isMouseActive
     THEN [b1 EXCEPT !.isNearMouse = b1.isNearMouse \/ InRepelRange(b1, mousePosition),
                     !.acceleration = VAdd(b1.acceleration, mouseRepel(b1, mousePosition))]
     ELSE b1

\* flock() applying separation, alignment and cohesion in the Formed mode
\* as well.
flock_AlwaysFlocks(bs, i, mousePosition, isMouseActive, scattered) ==
  LET b == bs[i]
      sep == sepForce(bs, i)
      ali == aliForce(bs, i)
      coh == cohForce(bs, i)
      f == [b EXCEPT !.acceleration =
                       VAdd(VAdd(VAdd(b.acceleration, sep), ali), coh)]
      b1 == IF scattered
            THEN f
            ELSE [f EXCEPT !.velocity = Zero,
                           !.position = Lerp(b.position, b.homePosition, homeLerp)]
  IN IF isMouseActive
     THEN [b1 EXCEPT !.isNearMouse = b1.isNearMouse \/ InRepelRange(b1, mousePosition),
                     !.acceleration = VAdd(b1.acceleration, mouseRepel(b1, mousePosition))]
     ELSE b1

\* flock(boids, mousePosition, isMouseActive, scattered) of agent i: the
\* agent afterwards.  The three flocking vectors are computed from the
\* swarm as it is at the call, whatever the mode.
flock(bs, i, mousePosition, isMouseActive, scattered) ==
  LET b == bs[i]
      sep == sepForce(bs, i)
      ali == aliForce(bs, i)
      coh == cohForce(bs, i)
      b1 == IF scattered
            THEN [b EXCEPT !.acceleration =
                    VAdd(VAdd(VAdd(b.acceleration, sep), ali), coh)]
            ELSE [b EXCEPT !.velocity = Zero,
                           !.position = Lerp(b.position, b.homePosition, homeLerp)]
  IN IF isMouseActive
     THEN [b1 EXCEPT
             !.isNearMouse = b1.isNearMouse \/ InRepelRange(b1, mousePosition),
             !.acceleration = VAdd(b1.acceleration, mouseRepel(b1, mousePosition))]
     ELSE b1

\* wrapEdges bouncing back to the edge that was crossed.
WrapCoord_Bounce(c) ==
  IF c > boundarySize THEN boundarySize
  ELSE IF c < -boundarySize THEN -boundarySize ELSE c

\* One coordinate through wrapEdges(): the two tests in the order of the code.
WrapCoord(c) ==
  LET c1 == IF c > boundarySize THEN -boundarySize ELSE c
  IN IF c1 < -boundarySize THEN boundarySize ELSE c1

\* wrapEdges() doing nothing.
wrapEdges_Off(p) == p

\* wrapEdges()
wrapEdges(p) == Vec(WrapCoord(p.x), WrapCoord(p.y), WrapCoord(p.z))

\* Accelerated without the clamp.
Accelerated_NoClamp(b) == VAdd(b.velocity, b.acceleration)

\* update(): velocity.add(acceleration); velocity.clampLength(0, maxSpeed)
Accelerated(b) == ClampLength(VAdd(b.velocity, b.acceleration), maxSpeed)

\* The damping of update() with the two bands exchanged.
Damped_BandsSwapped(b, v, scattered) ==
  IF scattered THEN v
  ELSE IF Within(b.position, b.homePosition, dampNearDist) THEN VMul(v, dampMid, Scale)
  ELSE IF Within(b.position, b.homePosition, dampMidDist) THEN VMul(v, dampNear, Scale)
  ELSE v

\* update(): the damping near the home position, applied when not scattered
Damped(b, v, scattered) ==
  IF scattered THEN v
  ELSE IF Within(b.position, b.homePosition, dampNearDist) THEN VMul(v, dampNear, Scale)
  ELSE IF Within(b.position, b.homePosition, dampMidDist) THEN VMul(v, dampMid, Scale)
  ELSE v

\* update() without "this.acceleration.set(0, 0, 0)" and without
\* "this.isNearMouse = false".
update_NoReset(b, scattered) ==
  LET v == Damped(b, Accelerated(b), scattered)
  IN [b EXCEPT !.velocity = v,
               !.position = wrapEdges(VAdd(b.position, v))]

\* update() on an agent whose position and homePosition are one object,
\* as the constructor would leave them without "homePos.clone()".
update_SharedHome(b, scattered) ==
  LET v == Damped(b, Accelerated(b), scattered)
  IN [b EXCEPT !.velocity = v,
               !.position = wrapEdges(VAdd(b.position, v)),
               !.homePosition = wrapEdges(VAdd(b.position, v)),
               !.acceleration = Zero,
               !.isNearMouse = FALSE]

\* update(scattered): the agent afterwards
update(b, scattered) ==
  LET v == Damped(b, Accelerated(b), scattered)
  IN [b EXCEPT !.velocity = v,
               !.position = wrapEdges(VAdd(b.position, v)),
               !.acceleration = Zero,
               !.isNearMouse = FALSE]

(***************************************************************************)
(* State                                                                   *)
(***************************************************************************)
VARIABLES
  boids,         \* the swarm: agent index -> agent
  mousePos,      \* pointer position in world space
  mouseActive,   \* pointer active flag
  isScattered,   \* the mode: TRUE = Scattered, FALSE = Formed
  scatterTimer,  \* frames left of the scatter
  pc,            \* where the single thread is: "shuffle", "pad" (inside
                 \* generateTextPositions()), "create" (the loop of init()),
                 \* "crashed" (init() threw), "init" (animate() called by
                 \* init()), "timer", "flock", "update" (inside animate()),
                 \* "idle" (between frames)
  idx,           \* the agent the running loop of animate() is at
  mouseEvents,   \* pointer events handled so far
  scatters,      \* Formed -> Scattered transitions so far
  sinceTrigger,  \* mode evaluations since the last collision trigger,
                 \* the triggering one included; 0 before the first trigger
  timerBefore,   \* scatterTimer as the running frame found it
  positions,     \* the array generateTextPositions() is building
  textPositions, \* the targets generateTextPositions() returned
  frameStart,    \* the swarm as the running swarm update found it, when
                 \* the order of the loops is left open
  visited,       \* the agents in the order the two loops have taken them,
                 \* when the order of the loops is left open
  \* the constellation sketch (genuary-5)
  isFormed,            \* the text is formed
  isTransitioning,     \* a transition is running
  transitionProgress,  \* 0..ProgressUnit, for 0..1
  transitionDirection, \* 1 forming, -1 releasing
  time,                \* the clock of the sketch, in steps of deltaTime,
                       \* kept modulo TimeWrap
  nodes,               \* the node array
  edges,               \* the edge list, pairs of node indices from 1
  textPoints,          \* the points extractTextPoints() returned last
  toggles,             \* toggleState() calls so far
  resizes,             \* resize events so far
  edgeCap              \* the maxEdges argument of the buildEdges() call

\* The variables of the flocking sketch.
swarm == << boids, mousePos, mouseActive, isScattered, scatterTimer, pc, idx,
            mouseEvents, scatters, sinceTrigger, timerBefore,
            positions, textPositions, frameStart, visited >>

\* The variables of the constellation sketch.
constellation == << isFormed, isTransitioning, transitionProgress,
                    transitionDirection, time, nodes, edges, textPoints,
                    toggles, resizes, edgeCap >>

vars == << boids, mousePos, mouseActive, isScattered, scatterTimer, pc, idx,
           mouseEvents, scatters, sinceTrigger, timerBefore,
           positions, textPositions, frameStart, visited,
           isFormed, isTransitioning, transitionProgress,
           transitionDirection, time, nodes, edges, textPoints,
           toggles, resizes, edgeCap >>

\* The constellation sketch is a page of its own: while the flocking
\* sketch runs it is not loaded.
NoConstellation ==
  /\ isFormed = FALSE
  /\ isTransitioning = FALSE
  /\ transitionProgress = 0
  /\ transitionDirection = 1
  /\ time = 0
  /\ nodes = << >>
  /\ edges = << >>
  /\ textPoints = << >>
  /\ toggles = 0
  /\ resizes = 0
  /\ edgeCap = 0

\* The variables that follow a swarm update whose loops take the agents
\* in any order.
passes == << frameStart, visited >>

\* The variables of init() that no frame and no handler writes.
startup == << positions, textPositions >>

\* The variables that record the run and bound it.
history == << scatters, sinceTrigger, timerBefore >>

\* Pointer positions the mousemove handler yields (on the plane z = 0).
PointerSet == { Vec(-1200, 300, 0), Vec(7000, -600, 0) }

Init ==
  /\ boids \in { bs \in [Boids -> [ homePosition : {TextPosition(i) : i \in Boids},
                                     position : {TextPosition(i) : i \in Boids},
                                     velocity : InitialVelocities,
                                     acceleration : {Zero},
                                     isNearMouse : {FALSE} ]] :
                   \A i \in Boids :
                     bs[i] = NewBoid(TextPosition(i), bs[i].velocity) }
  /\ mousePos = Vec(mouseOffScreen, mouseOffScreen, mouseOffScreen)
  /\ mouseActive = FALSE
  /\ isScattered = FALSE
  /\ scatterTimer = 0
  /\ pc = "init"
  /\ idx = 0
  /\ mouseEvents = 0
  /\ scatters = 0
  /\ sinceTrigger = 0
  /\ timerBefore = 0
  /\ frameStart = << >>
  /\ visited = << >>
  /\ NoConstellation
  /\ positions = << >>
  /\ textPositions = [i \in Boids |-> TextPosition(i)]

(***************************************************************************)
(* animate()                                                               *)
(***************************************************************************)
\* Collision with the test of mouseActive left out.
Collision_IgnoresActive ==
  \E i \in Boids : Within(boids[i].position, mousePos, collisionDistance)

\* "if (mouseActive) for (const boid of boids) if (distanceTo(mousePos) < 30)"
Collision ==
  /\ mouseActive
  /\ \E i \in Boids : Within(boids[i].position, mousePos, collisionDistance)

\* ArmedTimer adding the duration to what is left of the timer.
ArmedTimer_Stacks(t) == t + SCATTER_DURATION

\* "scatterTimer = SCATTER_DURATION" on a collision, from timer t.
ArmedTimer(t) == SCATTER_DURATION

\* "if (mouseActive) { for ... if (...) { isScattered = true;
\* scatterTimer = SCATTER_DURATION; break; } }"
CheckCollision ==
  /\ pc \in {"init", "idle"}
  /\ (Collision /\ ~isScattered) => scatters < MaxScatters
  /\ scatters' = IF Collision /\ ~isScattered THEN scatters + 1 ELSE scatters
  /\ isScattered' = IF Collision THEN TRUE ELSE isScattered
  /\ scatterTimer' = IF Collision THEN ArmedTimer(scatterTimer) ELSE scatterTimer
  /\ sinceTrigger' = IF Collision THEN 1
                     ELSE IF sinceTrigger = 0 THEN 0
                     ELSE IF sinceTrigger > SCATTER_DURATION THEN sinceTrigger
                     ELSE sinceTrigger + 1
  /\ timerBefore' = scatterTimer
  /\ pc' = "timer"
  /\ UNCHANGED startup
  /\ UNCHANGED passes
  /\ UNCHANGED constellation
  /\ UNCHANGED << boids, mousePos, mouseActive, idx, mouseEvents >>

\* The timer after "if (scatterTimer > 0) scatterTimer--".
TimerAfter(t) == IF t > 0 THEN t - 1 ELSE t

\* ModeAfter reverting as soon as the timer is about to reach zero.
ModeAfter_EarlyRevert(t, scattered) == IF t > 1 THEN scattered ELSE FALSE

\* ModeAfter without the else branch.
ModeAfter_NoRevert(t, scattered) == scattered

\* The mode after "if (scatterTimer > 0) ... else isScattered = false".
ModeAfter(t, scattered) == IF t > 0 THEN scattered ELSE FALSE

\* "Manage scatter timer"
ManageTimer ==
  /\ pc = "timer"
  /\ scatterTimer' = TimerAfter(scatterTimer)
  /\ isScattered' = ModeAfter(scatterTimer, isScattered)
  /\ pc' = "flock"
  /\ idx' = 1
  /\ UNCHANGED startup
  /\ UNCHANGED passes
  /\ UNCHANGED constellation
  /\ UNCHANGED << boids, mousePos, mouseActive, mouseEvents, history >>

\* The two loops of animate() fused into one: each agent is updated right
\* after its flock().
FlockStep_Fused ==
  /\ pc = "flock"
  /\ boids' = [boids EXCEPT ![idx] =
                 update(flock(boids, idx, mousePos, mouseActive, isScattered),
                        isScattered)]
  /\ IF idx < NumBoids
     THEN idx' = idx + 1 /\ pc' = pc
     ELSE idx' = 0 /\ pc' = "idle"
  /\ UNCHANGED startup
  /\ UNCHANGED passes
  /\ UNCHANGED constellation
  /\ UNCHANGED << mousePos, mouseActive, isScattered, scatterTimer,
                  mouseEvents, history >>

\* One iteration of "for (const boid of boids) boid.flock(...)".
FlockStep ==
  /\ pc = "flock"
  /\ boids' = [boids EXCEPT ![idx] =
                 flock(boids, idx, mousePos, mouseActive, isScattered)]
  /\ IF idx < NumBoids
     THEN idx' = idx + 1 /\ pc' = pc
     ELSE idx' = 1 /\ pc' = "update"
  /\ UNCHANGED startup
  /\ UNCHANGED passes
  /\ UNCHANGED constellation
  /\ UNCHANGED << mousePos, mouseActive, isScattered, scatterTimer,
                  mouseEvents, history >>

\* One iteration of "for (const boid of boids) boid.update(isScattered)".
UpdateStep ==
  /\ pc = "update"
  /\ boids' = [boids EXCEPT ![idx] = update(boids[idx], isScattered)]
  /\ IF idx < NumBoids
     THEN idx' = idx + 1 /\ pc' = pc
     ELSE idx' = 0 /\ pc' = "idle"
  /\ UNCHANGED startup
  /\ UNCHANGED passes
  /\ UNCHANGED constellation
  /\ UNCHANGED << mousePos, mouseActive, isScattered, scatterTimer,
                  mouseEvents, history >>

(***************************************************************************)
(* Event handlers: they run between frames only                            *)
(***************************************************************************)
\* Handlers running in the middle of animate().
HandlerMayRun_MidFrame == pc # "init" /\ mouseEvents < MaxMouseEvents

\* A handler runs when the thread is free, that is after init() and the
\* first animate() it calls, and between two frames.
HandlerMayRun == pc = "idle" /\ mouseEvents < MaxMouseEvents

\* onMouseMove(event)
MouseMove ==
  /\ HandlerMayRun
  /\ \E p \in PointerSet : mousePos' = p
  /\ mouseActive' = TRUE
  /\ << mousePos', mouseActive' >> # << mousePos, mouseActive >>
  /\ mouseEvents' = mouseEvents + 1
  /\ UNCHANGED startup
  /\ UNCHANGED passes
  /\ UNCHANGED constellation
  /\ UNCHANGED << boids, isScattered, scatterTimer, pc, idx, history >>

\* 'mouseenter'
MouseEnter ==
  /\ HandlerMayRun
  /\ ~mouseActive
  /\ mouseActive' = TRUE
  /\ mouseEvents' = mouseEvents + 1
  /\ UNCHANGED startup
  /\ UNCHANGED passes
  /\ UNCHANGED constellation
  /\ UNCHANGED << boids, mousePos, isScattered, scatterTimer, pc, idx, history >>

\* 'mouseleave'
MouseLeave ==
  /\ HandlerMayRun
  /\ mouseActive
  /\ mouseActive' = FALSE
  /\ mouseEvents' = mouseEvents + 1
  /\ UNCHANGED startup
  /\ UNCHANGED passes
  /\ UNCHANGED constellation
  /\ UNCHANGED << boids, mousePos, isScattered, scatterTimer, pc, idx, history >>

Next ==
  \/ CheckCollision
  \/ ManageTimer
  \/ FlockStep
  \/ UpdateStep
  \/ MouseMove
  \/ MouseEnter
  \/ MouseLeave

Spec == Init /\ [][Next]_vars

(***************************************************************************)
(* One swarm update from a swarm in mid-run                                *)
(***************************************************************************)
\* Positions an agent can have at the start of a frame: at the edges of
\* the world, on top of or next to one another, on top of the pointer.
UnitPositions ==
  { Vec(29900, -29950, 100), Vec(29000, -29000, 500),
    Vec(-29950, 29900, -29990), Vec(0, 0, 0), Vec(1800, 900, 0),
    Vec(-1200, 300, 0) }

\* Velocities an agent can have at the start of a frame.
UnitVelocities ==
  { Zero, Vec(200, 0, 0), Vec(100, -120, 30), Vec(-150, 100, -80) }

\* A frame about to run its flock pass: the agents anywhere in the world
\* with any velocity, either mode, the pointer off or next to the origin.
InitUnit ==
  /\ boids \in [Boids -> [ homePosition : {TextPosition(i) : i \in Boids},
                           position : UnitPositions,
                           velocity : UnitVelocities,
                           acceleration : {Zero},
                           isNearMouse : {FALSE} ]]
  /\ \A i \in Boids : boids[i].homePosition = TextPosition(i)
  /\ \E pointer \in
          { << Vec(mouseOffScreen, mouseOffScreen, mouseOffScreen), FALSE >>,
            << Vec(-1200, 300, 0), TRUE >> } :
        mousePos = pointer[1] /\ mouseActive = pointer[2]
  /\ isScattered \in BOOLEAN
  /\ scatterTimer = IF isScattered THEN SCATTER_DURATION \div 2 ELSE 0
  /\ pc = "flock"
  /\ idx = 1
  /\ mouseEvents = 0
  /\ scatters = 0
  /\ sinceTrigger = 0
  /\ timerBefore = 0
  /\ frameStart = << >>
  /\ visited = << >>
  /\ NoConstellation
  /\ positions = << >>
  /\ textPositions = [i \in Boids |-> TextPosition(i)]

NextUnit ==
  \/ FlockStep
  \/ UpdateStep

SpecUnit == InitUnit /\ [][NextUnit]_vars

(***************************************************************************)
(* Mode controller                                                         *)
(***************************************************************************)
(***************************************************************************)
(* init(): generating the targets and creating the swarm                   *)
(***************************************************************************)
\* What the sampling loop of generateTextPositions() can leave in
\* "positions": no pixel, fewer pixels than agents, as many, and more.
SampledLists ==
  { << >>,
    << TextPosition(1) >>,
    << TextPosition(3), TextPosition(4) >>,
    << TextPosition(3), TextPosition(4), TextPosition(1) >> }

\* Offsets of a duplicate: "(Math.random() - 0.5) * 5" on x and y,
\* "(Math.random() - 0.5) * 10" on z.
Jitters == { Vec(249, -250, 499), Vec(-100, 200, -300) }

\* "[positions[i], positions[j]] = [positions[j], positions[i]]"
Swapped(ps, i, j) == [ps EXCEPT ![i] = ps[j], ![j] = ps[i]]

\* slice() returning the whole array.
slice_All(ps, count) == ps

\* "positions.slice(0, numPoints)"
slice(ps, count) == SubSeq(ps, 1, IF Len(ps) < count THEN Len(ps) ELSE count)

\* The state in init() when the sampling loop of generateTextPositions()
\* has ended: no agent yet, no target returned yet.
InitStartup ==
  /\ positions \in SampledLists
  /\ textPositions = << >>
  /\ boids = << >>
  /\ mousePos = Vec(mouseOffScreen, mouseOffScreen, mouseOffScreen)
  /\ mouseActive = FALSE
  /\ isScattered = FALSE
  /\ scatterTimer = 0
  /\ pc = IF Len(positions) > 1 THEN "shuffle" ELSE "pad"
  /\ idx = Len(positions)
  /\ mouseEvents = 0
  /\ scatters = 0
  /\ sinceTrigger = 0
  /\ timerBefore = 0
  /\ frameStart = << >>
  /\ visited = << >>
  /\ NoConstellation

\* One iteration of "for (let i = positions.length - 1; i > 0; i--)":
\* idx is i + 1, the partner j + 1 is drawn from 1..idx.
ShuffleStep ==
  /\ pc = "shuffle"
  /\ \E j \in 1..idx : positions' = Swapped(positions, idx, j)
  /\ idx' = idx - 1
  /\ pc' = IF idx - 1 > 1 THEN "shuffle" ELSE "pad"
  /\ UNCHANGED passes
  /\ UNCHANGED constellation
  /\ UNCHANGED << boids, mousePos, mouseActive, isScattered, scatterTimer,
                  mouseEvents, history, textPositions >>

\* One iteration of "while (positions.length < numPoints)".  On an empty
\* array positions[idx] is undefined and ".clone()" throws.
PadStep ==
  /\ pc = "pad"
  /\ Len(positions) < NumBoids
  /\ IF positions = << >>
     THEN pc' = "crashed" /\ UNCHANGED positions
     ELSE /\ \E k \in 1..Len(positions) : \E jitter \in Jitters :
               positions' = Append(positions, VAdd(positions[k], jitter))
          /\ pc' = pc
  /\ UNCHANGED passes
  /\ UNCHANGED constellation
  /\ UNCHANGED << boids, mousePos, mouseActive, isScattered, scatterTimer, idx,
                  mouseEvents, history, textPositions >>

\* "return positions.slice(0, numPoints)" into textPositions
GenReturn ==
  /\ pc = "pad"
  /\ Len(positions) >= NumBoids
  /\ textPositions' = slice(positions, NumBoids)
  /\ positions' = << >>
  /\ pc' = "create"
  /\ idx' = 1
  /\ UNCHANGED passes
  /\ UNCHANGED constellation
  /\ UNCHANGED << boids, mousePos, mouseActive, isScattered, scatterTimer,
                  mouseEvents, history >>

\* One iteration of "for (let i = 0; i < CONFIG.numBoids; i++)
\* boids.push(new Boid(textPositions[i]))"; idx is i + 1.
CreateBoid ==
  /\ pc = "create"
  /\ \E v \in InitialVelocities :
       boids' = Append(boids, NewBoid(textPositions[idx], v))
  /\ IF idx < NumBoids
     THEN idx' = idx + 1 /\ pc' = pc
     ELSE idx' = 0 /\ pc' = "init"
  /\ UNCHANGED passes
  /\ UNCHANGED constellation
  /\ UNCHANGED << mousePos, mouseActive, isScattered, scatterTimer,
                  mouseEvents, history, startup >>

NextStartup ==
  \/ ShuffleStep
  \/ PadStep
  \/ GenReturn
  \/ CreateBoid
  \/ CheckCollision
  \/ ManageTimer
  \/ FlockStep
  \/ UpdateStep
  \/ MouseMove
  \/ MouseEnter
  \/ MouseLeave

SpecStartup == InitStartup /\ [][NextStartup]_vars

(***************************************************************************)
(* One swarm update with the order of the two loops left open              *)
(***************************************************************************)
Range(s) == { s[k] : k \in DOMAIN s }

\* The agents the running loop has not taken yet.
Pending ==
  IF pc = "flock" THEN Boids \ Range(visited)
  ELSE IF pc = "update"
       THEN Boids \ Range(SubSeq(visited, NumBoids + 1, Len(visited)))
       ELSE {}

\* As InitUnit, with the swarm remembered and no agent taken yet.
InitOrder ==
  /\ boids \in [Boids -> [ homePosition : {TextPosition(i) : i \in Boids},
                           position : UnitPositions,
                           velocity : UnitVelocities,
                           acceleration : {Zero},
                           isNearMouse : {FALSE} ]]
  /\ \A i \in Boids : boids[i].homePosition = TextPosition(i)
  /\ \E pointer \in
          { << Vec(mouseOffScreen, mouseOffScreen, mouseOffScreen), FALSE >>,
            << Vec(-1200, 300, 0), TRUE >> } :
        mousePos = pointer[1] /\ mouseActive = pointer[2]
  /\ isScattered \in BOOLEAN
  /\ scatterTimer = IF isScattered THEN SCATTER_DURATION \div 2 ELSE 0
  /\ pc = "flock"
  /\ idx = 0
  /\ mouseEvents = 0
  /\ scatters = 0
  /\ sinceTrigger = 0
  /\ timerBefore = 0
  /\ positions = << >>
  /\ textPositions = [i \in Boids |-> TextPosition(i)]
  /\ frameStart = boids
  /\ visited = << >>
  /\ NoConstellation

\* "boid.flock(boids, mousePos, mouseActive, isScattered)" for any agent
\* the flock loop has not taken yet.
FlockAny ==
  /\ pc = "flock"
  /\ \E i \in Pending :
       /\ boids' = [boids EXCEPT ![i] =
                      flock(boids, i, mousePos, mouseActive, isScattered)]
       /\ visited' = Append(visited, i)
       /\ pc' = IF Pending = {i} THEN "update" ELSE pc
  /\ UNCHANGED constellation
  /\ UNCHANGED << mousePos, mouseActive, isScattered, scatterTimer, idx,
                  mouseEvents, history, startup, frameStart >>

\* "boid.update(isScattered)" for any agent the update loop has not taken
\* yet.
UpdateAny ==
  /\ pc = "update"
  /\ \E i \in Pending :
       /\ boids' = [boids EXCEPT ![i] = update(boids[i], isScattered)]
       /\ visited' = Append(visited, i)
       /\ pc' = IF Pending = {i} THEN "idle" ELSE pc
  /\ UNCHANGED constellation
  /\ UNCHANGED << mousePos, mouseActive, isScattered, scatterTimer, idx,
                  mouseEvents, history, startup, frameStart >>

NextOrder ==
  \/ FlockAny
  \/ UpdateAny

SpecOrder == InitOrder /\ [][NextOrder]_vars

\* The swarm bs after the flock loop of animate() has taken agents 1..k,
\* in the order of the array.
RECURSIVE FlockedUpTo(_, _, _, _, _)
FlockedUpTo(bs, k, mousePosition, isMouseActive, scattered) ==
  IF k = 0 THEN bs
  ELSE LET prev == FlockedUpTo(bs, k - 1, mousePosition, isMouseActive, scattered)
       IN [prev EXCEPT ![k] = flock(prev, k, mousePosition, isMouseActive, scattered)]

\* The swarm bs after the update loop of animate() has taken agents 1..k,
\* in the order of the array.
RECURSIVE UpdatedUpTo(_, _, _)
UpdatedUpTo(bs, k, scattered) ==
  IF k = 0 THEN bs
  ELSE LET prev == UpdatedUpTo(bs, k - 1, scattered)
       IN [prev EXCEPT ![k] = update(prev[k], scattered)]

\* The swarm bs after the two loops of animate(), each in the order of
\* the array.
FrameEnd(bs, mousePosition, isMouseActive, scattered) ==
  UpdatedUpTo(FlockedUpTo(bs, NumBoids, mousePosition, isMouseActive, scattered),
              NumBoids, scattered)

(***************************************************************************)
(* The constellation sketch: configuration                                 *)
(***************************************************************************)
\* Units per 1.0 of a coordinate of the constellation sketch.
Unit == 1000

\* Steps per 1.0 of transitionProgress, and per second of deltaTime.
ProgressUnit == 4

\* Hundredths per 1.0 of a Math.random() value.
RandomUnit == 100

\* CONFIG.nodeCount (3000 in the code)
nodeCount == 8

\* CONFIG.maxEdgesPerNode
maxEdgesPerNode == 4

\* CONFIG.neighborRadius, in units
neighborRadius == 25 * Unit

\* The least length of a proximity edge ("n.dist > 5"), in units
minEdgeLength == 5 * Unit

\* CONFIG.transitionDuration, in steps of deltaTime
transitionDuration == ProgressUnit

\* "Math.floor(points.length * 0.02)", in hundredths
hubPercent == 2

(***************************************************************************)
(* extractTextPoints()                                                     *)
(***************************************************************************)
\* The k-th value of Math.random() in a run of draws started at seed,
\* in hundredths: a value of 0..99.
Rnd(seed, k) == (seed + 37 * k) % RandomUnit

\* "(Math.random() - 0.5) * spread", in units
Jitter(seed, k, spread) ==
  ((Rnd(seed, k) * 2 - RandomUnit) * spread * Unit) \div (2 * RandomUnit)

\* n text pixels of the canvas, two letters side by side, ten apart on a
\* lattice of the given number of columns, in canvas order (row by row).
Lattice(n, columns) ==
  [k \in 1..n |->
     [x |-> ((k - 1) % columns) * 10 * Unit - 40 * Unit,
      y |-> 20 * Unit - ((k - 1) \div columns) * 10 * Unit,
      letterIndex |-> IF 2 * ((k - 1) % columns) < columns THEN 0 ELSE 1]]

\* What the pixel scan of extractTextPoints() can find: nothing (a window
\* too small for the text), fewer pixels than nodes, more pixels than nodes.
PixelLists == { << >>, Lattice(6, 3), Lattice(20, 5) }

\* extractTextPoints(text, targetCount) on the scanned pixels, with the
\* Math.random() draws started at seed.
extractTextPoints(textPixels, targetCount, seed) ==
  LET n == Len(textPixels)
      step == Max2(1, n \div targetCount)
      \* iterations of "for (i = 0; i < n && points.length < targetCount; i += step)"
      sampled == IF (n + step - 1) \div step < targetCount
                 THEN (n + step - 1) \div step ELSE targetCount
      \* iterations of "while (points.length < targetCount && n > 0)"
      padded == IF n > 0 /\ sampled < targetCount THEN targetCount - sampled ELSE 0
      pixel(k) ==
        IF k <= sampled
        THEN LET i == (k - 1) * step
                 at == i + ((Rnd(seed, 4 * k) * step) \div RandomUnit)
             IN textPixels[(IF at < n - 1 THEN at ELSE n - 1) + 1]
        ELSE textPixels[((Rnd(seed, 4 * k) * n) \div RandomUnit) + 1]
      spread(k) == IF k <= sampled THEN 3 ELSE 5
  IN [k \in 1..(sampled + padded) |->
        [x |-> pixel(k).x + Jitter(seed, 4 * k + 1, spread(k)),
         y |-> pixel(k).y + Jitter(seed, 4 * k + 2, spread(k)),
         z |-> Jitter(seed, 4 * k + 3, 30),
         letterIndex |-> pixel(k).letterIndex]]

(***************************************************************************)
(* buildEdges()                                                            *)
(***************************************************************************)
\* The duplicate test with only its first half, "e[0] === i && e[1] === j".
HasEdge_Ordered(es, i, j) ==
  \E k \in DOMAIN es : es[k] = << i, j >>

\* "edges.some(e => (e[0] === i && e[1] === j) || (e[0] === j && e[1] === i))"
HasEdge(es, i, j) ==
  \E k \in DOMAIN es : es[k] = << i, j >> \/ es[k] = << j, i >>

\* "Math.floor(c / cellSize)"
Cell(c, cellSize) == c \div cellSize

\* "n.dist < neighborRadius && n.dist > 5" for Math.hypot of the x and y
\* differences; the componentwise test keeps the squares small.
InEdgeRange(p, q, r) ==
  /\ Abs(q.x - p.x) < r
  /\ Abs(q.y - p.y) < r
  /\ (q.x - p.x) * (q.x - p.x) + (q.y - p.y) * (q.y - p.y) < r * r
  /\ (q.x - p.x) * (q.x - p.x) + (q.y - p.y) * (q.y - p.y)
       > minEdgeLength * minEdgeLength

\* The points the chain of filters of buildEdges() keeps for point i: in
\* one of the nine cells around it, not i, not full, of the same letter,
\* in range.
Candidates(points, i, count, maxEdges, r) ==
  { j \in DOMAIN points :
      /\ j # i
      /\ Abs(Cell(points[j].x, r) - Cell(points[i].x, r)) <= 1
      /\ Abs(Cell(points[j].y, r) - Cell(points[i].y, r)) <= 1
      /\ count[j] < maxEdges
      /\ points[j].letterIndex = points[i].letterIndex
      /\ InEdgeRange(points[i], points[j], r) }

\* j comes before k once the candidates of i are sorted by distance: the
\* sort is stable, so equal distances keep the order of the "neighbors"
\* array, which is by cell column, then cell row, then index.
SortsBefore(points, i, j, k, r) ==
  LET p == points[i]
      dist2(m) == (points[m].x - p.x) * (points[m].x - p.x)
                    + (points[m].y - p.y) * (points[m].y - p.y)
      place(m) == << Cell(points[m].x, r) - Cell(p.x, r),
                     Cell(points[m].y, r) - Cell(p.y, r), m >>
      a == place(j)
      b == place(k)
  IN \/ dist2(j) < dist2(k)
     \/ /\ dist2(j) = dist2(k)
        /\ \/ a[1] < b[1]
           \/ a[1] = b[1] /\ a[2] < b[2]
           \/ a[1] = b[1] /\ a[2] = b[2] /\ a[3] < b[3]

\* ".sort((a, b) => a.dist - b.dist).slice(0, m)" of the candidate set
RECURSIVE Nearest(_, _, _, _, _)
Nearest(points, i, cand, m, r) ==
  IF m <= 0 \/ cand = {} THEN << >>
  ELSE LET first == CHOOSE j \in cand :
                      \A k \in cand \ {j} : SortsBefore(points, i, j, k, r)
       IN << first >> \o Nearest(points, i, cand \ {first}, m - 1, r)

\* The forEach over the nearest candidates of point i: an edge is pushed
\* and counted at both ends unless the pair is already in the list.
RECURSIVE Connected(_, _, _, _)
Connected(built, i, near, k) ==
  IF k > Len(near) THEN built
  ELSE LET j == near[k]
           next ==
             IF HasEdge(built.edges, i, j) THEN built
             ELSE [edges |-> Append(built.edges, << i, j >>),
                   count |-> [built.count EXCEPT ![i] = @ + 1, ![j] = @ + 1]]
       IN Connected(next, i, near, k + 1)

\* The second points.forEach of buildEdges(), over points i..Len(points).
RECURSIVE ProximityEdges(_, _, _, _, _)
ProximityEdges(points, built, i, maxEdges, r) ==
  IF i > Len(points) THEN built
  ELSE IF built.count[i] >= maxEdges
       THEN ProximityEdges(points, built, i + 1, maxEdges, r)
       ELSE LET cand == Candidates(points, i, built.count, maxEdges, r)
                near == Nearest(points, i, cand, maxEdges - built.count[i], r)
            IN ProximityEdges(points, Connected(built, i, near, 1),
                              i + 1, maxEdges, r)

\* The indices of the points other than i with the letter of point i, in
\* the order of the array ("sameLetter").
SameLetter(points, i) ==
  LET keep(j) == j # i /\ points[j].letterIndex = points[i].letterIndex
      F[j \in 0..Len(points)] ==
        IF j = 0 THEN << >>
        ELSE IF keep(j) THEN Append(F[j - 1], j) ELSE F[j - 1]
  IN F[Len(points)]

\* The hub loop of buildEdges() from iteration h on, with the
\* Math.random() draws started at seed.
RECURSIVE HubEdges(_, _, _, _)
HubEdges(points, es, h, seed) ==
  IF h >= (Len(points) * hubPercent) \div 100 THEN es
  ELSE LET i == ((Rnd(seed, 2 * h) * Len(points)) \div RandomUnit) + 1
           same == SameLetter(points, i)
           j == same[((Rnd(seed, 2 * h + 1) * Len(same)) \div RandomUnit) + 1]
       IN IF same # << >> /\ ~HasEdge(es, i, j)
          THEN HubEdges(points, Append(es, << i, j >>), h + 1, seed)
          ELSE HubEdges(points, es, h + 1, seed)

\* buildEdges(points, maxEdges, neighborRadius), with the Math.random()
\* draws of the hub loop started at seed.
buildEdges(points, maxEdges, r, seed) ==
  LET start == [edges |-> << >>, count |-> [i \in DOMAIN points |-> 0]]
      proximity == ProximityEdges(points, start, 1, maxEdges, r)
  IN HubEdges(points, proximity.edges, 0, seed)

\* The edges of es that end at point i.
Degree(es, i) == Cardinality({ k \in DOMAIN es : es[k][1] = i \/ es[k][2] = i })

(***************************************************************************)
(* The constellation sketch: nodes, frames, clicks and resizes             *)
(***************************************************************************)
\* toggleState() calls followed in a run.
MaxToggles == 3

\* Resize events followed in a run.
MaxResizes == 1

\* The clock is kept modulo this many steps, about one period of the
\* breathing (2 * pi / 1.2 seconds).
TimeWrap == 21

\* deltaTime of a frame, in steps of a quarter second: none, a short
\* frame, a long one, one longer than the whole transition.
DeltaTimes == { 0, 1, 3, 5 }

\* Seeds of the Math.random() draws of one extractTextPoints() and
\* buildEdges().
Seeds == { 10, 99 }

\* What one pass through extractTextPoints('GENUARY', CONFIG.nodeCount)
\* and buildEdges(textPoints, CONFIG.maxEdgesPerNode, CONFIG.neighborRadius)
\* yields, in initNodes() and in onResize(), for each pixel scan and seed.
Layouts ==
  { [textPoints |-> extractTextPoints(textPixels, nodeCount, seed),
     edges |-> buildEdges(extractTextPoints(textPixels, nodeCount, seed),
                          maxEdgesPerNode, neighborRadius, seed)] :
      textPixels \in PixelLists, seed \in Seeds }

\* The noise fields a floating frame can move the nodes by.
FloatChoices == { 0, 1 }

\* Where the noise-driven motion leaves node i in a floating frame under
\* noise field k: a point in the ball the sketch keeps the nodes in.
FloatPosition(i, k) ==
  [x |-> (((i * 53 + k * 17) % 400) - 200) * Unit,
   y |-> (((i * 29 + k * 71) % 400) - 200) * Unit,
   z |-> (((i * 11 + k * 13) % 300) - 150) * Unit + 500]

\* The node initNodes() makes for target point "target", placed at p.
NewNode(target, p) ==
  [x |-> p.x, y |-> p.y, z |-> p.z,
   startX |-> p.x, startY |-> p.y, startZ |-> p.z,
   targetX |-> target.x, targetY |-> target.y, targetZ |-> target.z,
   letterIndex |-> target.letterIndex]

\* "nodes = textPoints.map(...)"
initNodes(points, k) ==
  [i \in DOMAIN points |-> NewNode(points[i], FloatPosition(i, k))]

\* The flocking sketch is a page of its own: while the constellation
\* sketch runs it is not loaded.
NoSwarm ==
  /\ boids = << >>
  /\ mousePos = Vec(mouseOffScreen, mouseOffScreen, mouseOffScreen)
  /\ mouseActive = FALSE
  /\ isScattered = FALSE
  /\ scatterTimer = 0
  /\ pc = "unloaded"
  /\ idx = 0
  /\ mouseEvents = 0
  /\ scatters = 0
  /\ sinceTrigger = 0
  /\ timerBefore = 0
  /\ positions = << >>
  /\ textPositions = << >>
  /\ frameStart = << >>
  /\ visited = << >>

\* The state init() leaves: initNodes() on whatever the pixel scan found.
InitConstellation ==
  /\ NoSwarm
  /\ isFormed = FALSE
  /\ isTransitioning = FALSE
  /\ transitionProgress = 0
  /\ transitionDirection = 1
  /\ time = 0
  /\ toggles = 0
  /\ resizes = 0
  /\ edgeCap = maxEdgesPerNode
  /\ \E layout \in Layouts : \E k \in FloatChoices :
       /\ textPoints = layout.textPoints
       /\ nodes = initNodes(textPoints, k)
       /\ edges = layout.edges

\* sin(a) in thousandths, for a in thousandths of a radian, 0 <= a < 2 pi
\* (Bhaskara's approximation on each half period).
SinHalf(a) ==
  LET q == (a * (3142 - a)) \div 1000
  IN (16000 * q) \div (49348 - 4 * q)

Sin(a) == IF a < 3142 THEN SinHalf(a) ELSE -SinHalf(a - 3142)

\* "Math.sin(time * 1.2 + i * 0.03) * 0.3" times 0.05, in units, for the
\* node at index i (from 1) at clock t.
Breathe(t, i) ==
  TruncDiv(Sin((t * 300 + (i - 1) * 30) % 6283) * 15 * Unit, 1000 * 1000)

\* Steps per 1.0 of an eased progress.
EaseUnit == ProgressUnit * ProgressUnit * ProgressUnit * ProgressUnit

\* easeOutQuart(t) = 1 - (1 - t)^4
easeOutQuart(p) ==
  LET r == ProgressUnit - p
  IN EaseUnit - r * r * r * r

\* lerp(a, b, t) = a + (b - a) * t, for t in steps of EaseUnit
lerp(a, b, t) == a + TruncDiv((b - a) * t, EaseUnit)

\* The progress update without the clamp
\* "Math.max(0, Math.min(1, transitionProgress))".
Progressed_NoClamp(p, deltaTime, direction) ==
  p + ((deltaTime * ProgressUnit) \div transitionDuration) * direction

\* transitionProgress after "+= (deltaTime / transitionDuration) *
\* transitionDirection" and the clamp to [0, 1].
Progressed(p, deltaTime, direction) ==
  LET q == p + ((deltaTime * ProgressUnit) \div transitionDuration) * direction
  IN IF q < 0 THEN 0 ELSE IF q > ProgressUnit THEN ProgressUnit ELSE q

\* The test that ends a transition.
Completes(p, direction) ==
  \/ direction > 0 /\ p >= ProgressUnit
  \/ direction < 0 /\ p <= 0

\* The body of nodes.forEach in updateNodes() for node i.
NodeAfter(node, i, transitioning, formed, direction, p, t, k) ==
  LET eased == easeOutQuart(p)
  IN IF transitioning
     THEN IF direction > 0
          THEN [node EXCEPT !.x = lerp(node.startX, node.targetX, eased),
                            !.y = lerp(node.startY, node.targetY, eased),
                            !.z = lerp(node.startZ, node.targetZ, eased)]
          ELSE [node EXCEPT !.x = lerp(node.targetX, node.startX, EaseUnit - eased),
                            !.y = lerp(node.targetY, node.startY, EaseUnit - eased),
                            !.z = lerp(node.targetZ, node.startZ, EaseUnit - eased)]
     ELSE IF formed
     THEN [node EXCEPT !.x = node.targetX + Breathe(t, i),
                       !.y = node.targetY + Breathe(t, i)]
     ELSE LET p1 == FloatPosition(i, k)
          IN [node EXCEPT !.x = p1.x, !.y = p1.y, !.z = p1.z,
                          !.startX = p1.x, !.startY = p1.y, !.startZ = p1.z]

\* animate(currentTime) for a frame that comes deltaTime after the last
\* one: the clock, then updateNodes(deltaTime).
FrameAfter(deltaTime) ==
  \E k \in FloatChoices :
    LET p == IF isTransitioning
             THEN Progressed(transitionProgress, deltaTime, transitionDirection)
             ELSE transitionProgress
        done == isTransitioning /\ Completes(p, transitionDirection)
        transitioning == isTransitioning /\ ~done
        formed == IF done THEN transitionDirection > 0 ELSE isFormed
    IN /\ time' = (time + deltaTime) % TimeWrap
       /\ transitionProgress' = p
       /\ isTransitioning' = transitioning
       /\ isFormed' = formed
       /\ nodes' = [i \in DOMAIN nodes |->
                      NodeAfter(nodes[i], i, transitioning, formed,
                                transitionDirection, p, time', k)]
       /\ UNCHANGED << transitionDirection, edges, textPoints, toggles, resizes,
                       edgeCap >>
       /\ UNCHANGED swarm

\* animate(currentTime), called back by requestAnimationFrame
Frame == \E deltaTime \in DeltaTimes : FrameAfter(deltaTime)

\* toggleState() without its first line "if (isTransitioning) return;".
Toggle_Restarts ==
  /\ toggles < MaxToggles
  /\ toggles' = toggles + 1
  /\ isTransitioning' = TRUE
  /\ transitionDirection' = IF isFormed THEN -1 ELSE 1
  /\ nodes' = IF isFormed THEN nodes
              ELSE [i \in DOMAIN nodes |->
                      [nodes[i] EXCEPT !.startX = nodes[i].x,
                                       !.startY = nodes[i].y,
                                       !.startZ = nodes[i].z]]
  /\ UNCHANGED << isFormed, transitionProgress, time, edges, textPoints,
                  resizes, edgeCap >>
  /\ UNCHANGED swarm

\* toggleState() with "transitionDirection = 1" in place of
\* "transitionDirection = isFormed ? -1 : 1".
Toggle_AlwaysForward ==
  /\ toggles < MaxToggles
  /\ toggles' = toggles + 1
  /\ IF isTransitioning
     THEN UNCHANGED << isTransitioning, transitionDirection, nodes >>
     ELSE /\ isTransitioning' = TRUE
          /\ transitionDirection' = 1
          /\ nodes' = [i \in DOMAIN nodes |->
                         [nodes[i] EXCEPT !.startX = nodes[i].x,
                                          !.startY = nodes[i].y,
                                          !.startZ = nodes[i].z]]
  /\ UNCHANGED << isFormed, transitionProgress, time, edges, textPoints,
                  resizes, edgeCap >>
  /\ UNCHANGED swarm

\* toggleState(), on a click or on Space
Toggle ==
  /\ toggles < MaxToggles
  /\ toggles' = toggles + 1
  /\ IF isTransitioning
     THEN UNCHANGED << isTransitioning, transitionDirection, nodes >>
     ELSE /\ isTransitioning' = TRUE
          /\ transitionDirection' = IF isFormed THEN -1 ELSE 1
          /\ nodes' = IF isFormed THEN nodes
                      ELSE [i \in DOMAIN nodes |->
                              [nodes[i] EXCEPT !.startX = nodes[i].x,
                                               !.startY = nodes[i].y,
                                               !.startZ = nodes[i].z]]
  /\ UNCHANGED << isFormed, transitionProgress, time, edges, textPoints,
                  resizes, edgeCap >>
  /\ UNCHANGED swarm

\* onResize(): new targets for the nodes that have a new point, new edges.
Resize ==
  /\ resizes < MaxResizes
  /\ resizes' = resizes + 1
  /\ \E layout \in Layouts :
       LET newTextPoints == layout.textPoints
       IN /\ nodes' = [i \in DOMAIN nodes |->
                         IF i \in DOMAIN newTextPoints
                         THEN [nodes[i] EXCEPT
                                 !.targetX = newTextPoints[i].x,
                                 !.targetY = newTextPoints[i].y,
                                 !.targetZ = newTextPoints[i].z,
                                 !.letterIndex = newTextPoints[i].letterIndex]
                         ELSE nodes[i]]
          /\ textPoints' = newTextPoints
          /\ edges' = layout.edges
  /\ UNCHANGED << isFormed, isTransitioning, transitionProgress,
                  transitionDirection, time, toggles, edgeCap >>
  /\ UNCHANGED swarm

NextConstellation ==
  \/ Frame
  \/ Toggle
  \/ Resize

SpecConstellation == InitConstellation /\ [][NextConstellation]_vars

\* A frame that comes a positive time after the last one.
FrameAdvancing == \E deltaTime \in DeltaTimes \ { 0 } : FrameAfter(deltaTime)

\* The constellation sketch while the browser keeps calling animate()
\* back with increasing timestamps.
SpecConstellationLive ==
  InitConstellation /\ [][NextConstellation]_vars /\ WF_vars(FrameAdvancing)

(***************************************************************************)
(* buildEdges() on its own: a point set and a cap in, an edge list out     *)
(***************************************************************************)
\* Points in a point set handed to buildEdges(): enough for
\* "Math.floor(points.length * 0.02)" to give a hub.
MaxPoints == 50

\* The pixel scans the point sets are sampled from: none, fewer pixels
\* than points (so points are padded), more pixels than points.
EdgePixelLists == { << >>, Lattice(20, 5), Lattice(120, 10) }

\* Seeds of the Math.random() draws, of the point set and of the hubs.
EdgeSeeds == { 0, 10, 35, 50, 80, 99 }

\* The point sets handed to buildEdges().
PointSets ==
  { extractTextPoints(textPixels, MaxPoints, seed) :
      textPixels \in EdgePixelLists, seed \in EdgeSeeds }

\* The values of the maxEdges argument.
EdgeCaps == { 1, 2, maxEdgesPerNode }

\* Before the call: the arguments are chosen.
InitEdges ==
  /\ NoSwarm
  /\ isFormed = FALSE
  /\ isTransitioning = FALSE
  /\ transitionProgress = 0
  /\ transitionDirection = 1
  /\ time = 0
  /\ toggles = 0
  /\ resizes = 0
  /\ nodes = << >>
  /\ edges = << >>
  /\ textPoints \in PointSets
  /\ edgeCap \in EdgeCaps

\* "edges = buildEdges(textPoints, maxEdges, CONFIG.neighborRadius)"
BuildEdges ==
  /\ edges = << >>
  /\ \E seed \in EdgeSeeds :
       edges' = buildEdges(textPoints, edgeCap, neighborRadius, seed)
  /\ UNCHANGED << isFormed, isTransitioning, transitionProgress,
                  transitionDirection, time, nodes, textPoints, toggles,
                  resizes, edgeCap >>
  /\ UNCHANGED swarm

NextEdges == BuildEdges

SpecEdges == InitEdges /\ [][NextEdges]_vars

\* The thread is inside the swarm update of a frame.
InSwarmUpdate == pc \in {"flock", "update"}

\* C1: a collision trigger makes the mode Scattered in that frame's swarm
\* update; with no further trigger the mode is Scattered in the swarm
\* updates of exactly SCATTER_DURATION consecutive frames, the triggering
\* one included, and Formed in the frame after them.
C1_ScatteredForDuration ==
  InSwarmUpdate =>
    /\ sinceTrigger \in 1..SCATTER_DURATION => isScattered
    /\ sinceTrigger = SCATTER_DURATION + 1 => ~isScattered

C1_Witness ==
  /\ pc = "flock"
  /\ sinceTrigger = SCATTER_DURATION + 1
  /\ ~isScattered
  /\ scatters = 1

\* C2: the mode goes from Formed to Scattered only in a step at which the
\* pointer is active and some agent is closer than 30 to the pointer, a
\* threshold below mouseRepelRadius; otherwise Formed stays Formed.
C2_ScatterOnlyOnCollision ==
  [][ (~isScattered /\ isScattered') =>
        /\ mouseActive
        /\ \E i \in Boids : Within(boids[i].position, mousePos, 30 * Scale)
        /\ 30 * Scale < mouseRepelRadius ]_vars

C2_Witness ==
  /\ pc = "timer"
  /\ isScattered
  /\ sinceTrigger = 1
  /\ mouseEvents = 1
  /\ \A i \in Boids : boids[i].position = boids[i].homePosition

\* C3 as stated: at the end of a frame's mode evaluation a timer of zero
\* implies the Formed mode.
C3_ZeroTimerIsFormed ==
  pc = "flock" => (scatterTimer = 0 => ~isScattered)

\* C3 as amended: at the end of a frame's mode evaluation a timer of zero
\* implies the Formed mode, except in the evaluation in which the timer
\* itself goes from 1 to 0: the mode reverts one evaluation after the
\* timer has reached zero.
C3_RevertsAfterZero ==
  [][ (pc = "timer" /\ scatterTimer' = 0 /\ isScattered') => scatterTimer = 1 ]_vars

C3_Witness ==
  /\ pc = "flock"
  /\ scatterTimer = 0
  /\ ~isScattered
  /\ sinceTrigger = SCATTER_DURATION + 1

\* C4: a collision trigger sets the timer to exactly SCATTER_DURATION,
\* also when the mode is Scattered already and whatever is left of the
\* timer, and the timer is within 0..SCATTER_DURATION in every state.
C4_TimerRearmed ==
  /\ scatterTimer \in 0..SCATTER_DURATION
  /\ (pc = "timer" /\ sinceTrigger = 1) => scatterTimer = SCATTER_DURATION

\* A trigger that finds the mode Scattered with part of the timer used up.
C4_Witness ==
  /\ pc = "timer"
  /\ sinceTrigger = 1
  /\ scatterTimer = SCATTER_DURATION
  /\ timerBefore \in 1..(SCATTER_DURATION - 20)

\* C5: the mode evaluation comes right before the flock pass and touches
\* no agent; from then to the end of the frame the mode, the pointer
\* position and the pointer-active flag stay as they are, so every flock()
\* and update() of the frame is run with the same values.
C5_ModeFixedDuringFrame ==
  [][ /\ InSwarmUpdate =>
           /\ isScattered' = isScattered
           /\ mousePos' = mousePos
           /\ mouseActive' = mouseActive
      /\ (pc' = "flock" /\ pc # "flock") => pc = "timer"
      /\ (pc' = "idle" /\ pc # "idle") => (pc = "update" /\ idx = NumBoids)
      /\ ~InSwarmUpdate => boids' = boids ]_vars

C5_Witness ==
  /\ pc = "update"
  /\ idx = NumBoids
  /\ isScattered
  /\ mouseActive

(***************************************************************************)
(* Integrator                                                              *)
(***************************************************************************)
\* C6: after construction and after every flock() and update(), every
\* agent's speed is at most maxSpeed.
C6_SpeedBounded ==
  \A i \in Boids : NotLongerThan(boids[i].velocity, maxSpeed)

\* An agent whose velocity the clamp has cut to maxSpeed.
C6_Witness ==
  \E i \in Boids : /\ ~NotLongerThan(boids[i].velocity, maxSpeed - 3)
                   /\ pc = "idle"

(***************************************************************************)
(* Steering calculator                                                     *)
(***************************************************************************)
\* Vector v is at most num / den units long.
LengthAtMost(v, num, den) ==
  /\ MaxAbs(v) * den <= num
  /\ LengthSq(v) * den * den <= num * num

\* C7 as stated: every contribution flock() adds to the acceleration,
\* weighted as it is summed, is at most maxForce long, and the mouse
\* repulsion at most 4 * maxForce.
C7_ContributionsWithinMaxForce ==
  (pc = "flock" /\ isScattered) =>
    /\ NotLongerThan(sepForce(boids, idx), maxForce)
    /\ NotLongerThan(aliForce(boids, idx), maxForce)
    /\ NotLongerThan(cohForce(boids, idx), maxForce)
    /\ NotLongerThan(mouseRepel(boids[idx], mousePos), 4 * maxForce)

\* C7 as amended: the separation contribution as summed is at most
\* separationWeight * maxForce (1.5 * 0.05) long, the alignment and the
\* cohesion contribution at most maxForce, and the mouse repulsion, in
\* either mode, at most 4 * maxForce; before its weight is applied each of
\* separation, alignment and cohesion is at most maxForce long.
C7_ContributionsWithinWeightedForce ==
  /\ (pc = "flock" /\ isScattered) =>
       /\ NotLongerThan(separation(boids, idx), maxForce)
       /\ NotLongerThan(alignment(boids, idx), maxForce)
       /\ NotLongerThan(cohesion(boids, idx), maxForce)
       /\ LengthAtMost(sepForce(boids, idx), separationWeight * maxForce, Scale)
       /\ NotLongerThan(aliForce(boids, idx), maxForce)
       /\ NotLongerThan(cohForce(boids, idx), maxForce)
  /\ \A i \in Boids :
       NotLongerThan(mouseRepel(boids[i], mousePos), 4 * maxForce)

\* A scattered agent about to add a separation longer than maxForce, with
\* alignment, cohesion and mouse repulsion at work as well.
C7_Witness ==
  /\ pc = "flock"
  /\ isScattered
  /\ ~NotLongerThan(sepForce(boids, idx), maxForce)
  /\ aliForce(boids, idx) # Zero
  /\ cohForce(boids, idx) # Zero
  /\ \E i \in Boids : mouseActive /\ mouseRepel(boids[i], mousePos) # Zero

(***************************************************************************)
(* Boundary wrap                                                           *)
(***************************************************************************)
\* Coordinate c of the position after "position.add(velocity)" and what
\* the teleport wrap makes of it.
Teleported(c, after) ==
  /\ c > 300 * Scale => after = -300 * Scale
  /\ c < -300 * Scale => after = 300 * Scale
  /\ (c >= -300 * Scale /\ c <= 300 * Scale) => after = c

\* C8: update() moves the agent by its new velocity and then sends a
\* coordinate beyond +boundarySize to exactly -boundarySize, one beyond
\* -boundarySize to exactly +boundarySize and leaves any other as it is;
\* the velocity is the one that was added, whether a coordinate wrapped
\* or not.
C8_BoundaryWrap ==
  [][ pc = "update" =>
        LET b == boids[idx]
            a == boids'[idx]
            v == Damped(b, Accelerated(b), isScattered)
            moved == VAdd(b.position, v)
        IN /\ a.velocity = v
           /\ Teleported(moved.x, a.position.x)
           /\ Teleported(moved.y, a.position.y)
           /\ Teleported(moved.z, a.position.z) ]_vars

\* An agent that has crossed the upper edge in one coordinate and the lower
\* edge in another, still flying outwards in both.
C8_Witness ==
  \E i \in Boids :
    /\ pc = "update" /\ idx > i
    /\ boids[i].position.x = -boundarySize /\ boids[i].velocity.x > 0
    /\ boids[i].position.y = boundarySize /\ boids[i].velocity.y < 0
    /\ Abs(boids[i].position.z) < boundarySize

(***************************************************************************)
(* Formed mode                                                             *)
(***************************************************************************)
\* Coordinate d of (homePosition - position) before and after a lerp of
\* one tenth: it shrinks by a tenth, so it does not grow.
ShrunkByTenth(d, after) ==
  /\ after = d - TruncDiv(d, 10)
  /\ Abs(after) <= Abs(d)

\* C9: in a Formed frame that adds no mouse repulsion to an agent, flock()
\* brings each coordinate of the agent a tenth nearer to its homePosition
\* and update() leaves the position there with a velocity of zero.
C9_FormedConvergence ==
  [][ ~isScattered =>
        /\ (pc = "flock" /\ boids'[idx].acceleration = Zero) =>
             LET d == VSub(boids[idx].homePosition, boids[idx].position)
                 e == VSub(boids'[idx].homePosition, boids'[idx].position)
             IN /\ ShrunkByTenth(d.x, e.x)
                /\ ShrunkByTenth(d.y, e.y)
                /\ ShrunkByTenth(d.z, e.z)
        /\ (pc = "update" /\ boids[idx].acceleration = Zero) =>
             /\ boids'[idx].position = boids[idx].position
             /\ boids'[idx].velocity = Zero ]_vars

\* An agent on its way home from far away, at rest at the end of a Formed
\* frame with the pointer inactive.
C9_Witness ==
  /\ pc = "idle"
  /\ ~isScattered
  /\ ~mouseActive
  /\ sinceTrigger > SCATTER_DURATION
  /\ \E i \in Boids :
       /\ ~Within(boids[i].position, boids[i].homePosition, 100 * Scale)
       /\ boids[i].velocity = Zero

(***************************************************************************)
(* Zero-neighbour case                                                     *)
(***************************************************************************)
\* No other agent is at a distance d from agent i with 0 < d < radius.
Isolated(i, radius) ==
  \A j \in Boids \ {i} :
    \/ boids[j].position = boids[i].position
    \/ ~Within(boids[i].position, boids[j].position, radius)

\* C10: for an agent with no other agent at a distance d, 0 < d < radius,
\* separation(), alignment() and cohesion() return the zero vector,
\* whatever the agent's velocity.
C10_ZeroNeighbours ==
  \A i \in Boids :
    /\ Isolated(i, separationRadius) => separation(boids, i) = Zero
    /\ Isolated(i, alignmentRadius) => alignment(boids, i) = Zero
    /\ Isolated(i, cohesionRadius) => cohesion(boids, i) = Zero

\* A moving agent out of reach of every other, and a moving agent that
\* only has another one right on top of it.
C10_Witness ==
  /\ NumBoids > 1
  /\ Isolated(1, cohesionRadius)
  /\ boids[1].velocity # Zero
  /\ boids[2].position = boids[1].position

(***************************************************************************)
(* The two passes of a frame                                               *)
(***************************************************************************)
\* The position and the velocity of every agent.
Kinematics(bs) == [i \in DOMAIN bs |-> << bs[i].position, bs[i].velocity >>]

\* C11 as stated: within a frame no agent's position or velocity changes
\* before the update pass; the flock pass changes none.
C11_NoMutationBeforeUpdatePass ==
  [][ pc # "update" => Kinematics(boids') = Kinematics(boids) ]_vars

\* C11 as amended: in a Scattered frame no agent's position or velocity
\* changes before the update pass.  In a Formed frame flock() sets the
\* velocity of its own agent to zero and moves its position a tenth of
\* the way to its homePosition, and changes no other agent.
C11_FlockMutatesOnlyWhenFormed ==
  [][ /\ (pc # "update" /\ (pc = "flock" => isScattered)) =>
           Kinematics(boids') = Kinematics(boids)
      /\ (pc = "flock" /\ ~isScattered) =>
           /\ \A j \in Boids \ {idx} :
                Kinematics(boids')[j] = Kinematics(boids)[j]
           /\ boids'[idx].velocity = Zero
           /\ boids'[idx].position =
                VAdd(boids[idx].position,
                     VDiv(VSub(boids[idx].homePosition, boids[idx].position), 10))
    ]_vars

\* The flock pass of a Scattered frame has given the first agent a force
\* and is about to run flock() for the last one.
C11_Witness ==
  /\ pc = "flock"
  /\ idx = NumBoids
  /\ idx > 1
  /\ isScattered
  /\ boids[1].acceleration # Zero
  /\ boids[1].velocity # Zero

(***************************************************************************)
(* Per-frame transient state                                               *)
(***************************************************************************)
\* Agent i is outside its own flock()..update() span of the running frame:
\* the frame has not reached its flock() or has finished its update().
Settled(i) ==
  \/ pc \in {"init", "timer", "idle"}
  \/ pc = "flock" /\ i >= idx
  \/ pc = "update" /\ i < idx

\* C12: at the end of every frame, and until its next flock(), every
\* agent's acceleration is the zero vector and its isNearMouse flag is
\* false.
C12_TransientsCleared ==
  \A i \in Boids :
    Settled(i) => boids[i].acceleration = Zero /\ ~boids[i].isNearMouse

\* In the update pass the first agent has been updated and is cleared,
\* while the last one still carries the force and the mark of this frame.
C12_Witness ==
  /\ pc = "update"
  /\ idx = NumBoids
  /\ idx > 1
  /\ boids[1].acceleration = Zero
  /\ ~boids[1].isNearMouse
  /\ boids[NumBoids].acceleration # Zero
  /\ boids[NumBoids].isNearMouse

(***************************************************************************)
(* The home position                                                       *)
(***************************************************************************)
\* C13: the homePosition of agent i is, in every state of a run, the i-th
\* generated target it was constructed from: no frame step of either mode
\* and no pointer event changes it.
C13_HomePositionImmutable ==
  \A i \in Boids : boids[i].homePosition = TextPosition(i)

\* A scatter has run its course and the swarm is Formed again, with an
\* agent still away from its home and the pointer handled at least once.
C13_Witness ==
  /\ pc = "idle"
  /\ scatters > 0
  /\ ~isScattered
  /\ mouseEvents > 0
  /\ \E i \in Boids :
       /\ boids[i].position # boids[i].homePosition
       /\ boids[i].homePosition = TextPosition(i)

(***************************************************************************)
(* The size of the swarm                                                   *)
(***************************************************************************)
\* init() has created the swarm and the frames are running.
Running == pc \in {"init", "timer", "flock", "update", "idle"}

\* C14: the generator fails only when no pixel was sampled and otherwise
\* returns exactly numBoids targets; agent i is constructed on the i-th
\* target; once init() has created the swarm, every frame and every
\* pointer event finds exactly numBoids agents.
C14_SwarmSizeFixed ==
  /\ pc = "crashed" => positions = << >>
  /\ (pc = "create" \/ Running) => Len(textPositions) = NumBoids
  /\ pc = "create" => Len(boids) = idx - 1
  /\ \A i \in 1..Len(boids) : boids[i].homePosition = textPositions[i]
  /\ Running => DOMAIN boids = Boids

\* The swarm was generated from fewer pixels than agents, so that the last
\* target is a jittered duplicate, and it has since been scattered.
C14_Witness ==
  /\ pc = "idle"
  /\ isScattered
  /\ Len(boids) = NumBoids
  /\ textPositions[NumBoids] \notin { TextPosition(i) : i \in 1..Len(TextPixels) }

(***************************************************************************)
(* flock() in the two modes                                                *)
(***************************************************************************)
\* C15: in a Formed frame flock() leaves its agent with velocity zero, with
\* its position a tenth of the way closer to homePosition, and with an
\* acceleration that is zero when the pointer is inactive or out of range
\* and the mouse repulsion, taken at the new position, otherwise:
\* separation, alignment and cohesion add nothing.
C15_FormedFlock ==
  [][ (pc = "flock" /\ ~isScattered) =>
        LET b == boids[idx]
            a == boids'[idx]
        IN /\ a.velocity = Zero
           /\ a.position =
                VAdd(b.position, VDiv(VSub(b.homePosition, b.position), 10))
           /\ ~mouseActive => a.acceleration = Zero
           /\ (mouseActive /\ ~Within(a.position, mousePos, mouseRepelRadius))
                => a.acceleration = Zero
           /\ mouseActive => a.acceleration = mouseRepel(a, mousePos)
    ]_vars

\* The first agent has had its Formed flock() with the pointer active: it
\* carries the mouse force although a neighbour is inside its separation
\* radius.
C15_Witness ==
  /\ pc = "flock"
  /\ idx = 2
  /\ ~isScattered
  /\ mouseActive
  /\ boids[1].velocity = Zero
  /\ boids[1].acceleration # Zero
  /\ sepForce(boids, 1) # Zero

\* The three flocking forces of agent i with their weights, summed.
WeightedFlocking(bs, i) ==
  VAdd(VAdd(VMul(separation(bs, i), separationWeight, Scale),
            VMul(alignment(bs, i), alignmentWeight, Scale)),
       VMul(cohesion(bs, i), cohesionWeight, Scale))

\* C16: in a Scattered frame flock() leaves its agent's position and
\* velocity as they were and its acceleration at the weighted sum of
\* separation, alignment and cohesion, plus the mouse repulsion when the
\* pointer is active; update() then integrates exactly that acceleration,
\* clamped to maxSpeed, with no damping.
C16_ScatteredFlock ==
  [][ /\ (pc = "flock" /\ isScattered) =>
           LET b == boids[idx]
               a == boids'[idx]
           IN /\ a.position = b.position
              /\ a.velocity = b.velocity
              /\ a.acceleration =
                   IF mouseActive
                   THEN VAdd(WeightedFlocking(boids, idx), mouseRepel(b, mousePos))
                   ELSE WeightedFlocking(boids, idx)
      /\ (pc = "update" /\ isScattered) =>
           LET b == boids[idx]
               a == boids'[idx]
           IN /\ a.velocity = ClampLength(VAdd(b.velocity, b.acceleration), maxSpeed)
              /\ a.position = wrapEdges(VAdd(b.position, a.velocity))
    ]_vars

\* The first agent has had its Scattered flock() next to its home, moving,
\* with a neighbour inside its separation radius and the pointer in range.
C16_Witness ==
  /\ pc = "flock"
  /\ idx = 2
  /\ isScattered
  /\ mouseActive
  /\ InRepelRange(boids[1], mousePos)
  /\ Within(boids[1].position, boids[1].homePosition, dampNearDist)
  /\ boids[1].velocity # Zero
  /\ separation(boids, 1) # Zero
  /\ boids[1].acceleration # Zero

(***************************************************************************)
(* Seek-home                                                               *)
(***************************************************************************)
\* The forces flock() accumulates for agent idx in the running frame, read
\* off the step: the flocking forces when scattered, and the mouse
\* repulsion at the agent's position after the step when the pointer is
\* active.
AccumulatedForces ==
  VAdd(IF isScattered THEN WeightedFlocking(boids, idx) ELSE Zero,
       IF mouseActive THEN mouseRepel(boids'[idx], mousePos) ELSE Zero)

\* C17 as stated: in every frame seek(homePosition) scaled by
\* homeAttractionStrength is part of the force flock() accumulates for the
\* agent.
C17_SeekHomeContributes ==
  [][ pc = "flock" =>
        boids'[idx].acceleration = VAdd(AccumulatedForces, seekHome(boids[idx]))
    ]_vars

\* C17 as amended: seekHome() is never applied; the force flock()
\* accumulates for an agent is made of separation, alignment, cohesion and
\* mouse repulsion only, whatever seekHome() would return.
C17_SeekHomeNotApplied ==
  [][ pc = "flock" => boids'[idx].acceleration = AccumulatedForces ]_vars

\* The first agent has had its flock() away from home with no neighbour
\* and no pointer: seekHome() would pull it, and its acceleration is zero.
C17_Witness ==
  /\ pc = "flock"
  /\ idx = 2
  /\ ~mouseActive
  /\ boids[1].position # boids[1].homePosition
  /\ seekHome(boids[1]) # Zero
  /\ boids[1].acceleration = Zero

(***************************************************************************)
(* Zero distances                                                          *)
(***************************************************************************)
\* The swarm without the agents other than i that are exactly where agent
\* i is.
WithoutCoincident(bs, i) ==
  [k \in { j \in DOMAIN bs : j = i \/ bs[j].position # bs[i].position } |-> bs[k]]

\* C18: flock() gives its agent the same separation, alignment and
\* cohesion as if the agents at distance 0 from it were not in the swarm;
\* every distance separation() divides by is positive; an agent that is
\* exactly at the active pointer gets a zero mouse force and is not marked
\* isNearMouse; and seek() toward the agent's own position is the defined
\* vector clamp(-velocity, maxForce).
C18_ZeroDistanceGuard ==
  [][ pc = "flock" =>
        LET b == boids[idx]
            a == boids'[idx]
            rest == WithoutCoincident(boids, idx)
        IN /\ \A j \in Neighbours(boids, idx, separationRadius) :
                LengthSq(VSub(b.position, boids[j].position)) > 0
           /\ separation(boids, idx) = separation(rest, idx)
           /\ alignment(boids, idx) = alignment(rest, idx)
           /\ cohesion(boids, idx) = cohesion(rest, idx)
           /\ (mouseActive /\ a.position = mousePos) =>
                /\ mouseRepel(a, mousePos) = Zero
                /\ ~a.isNearMouse
                /\ a.acceleration =
                     IF isScattered THEN WeightedFlocking(rest, idx) ELSE Zero
           /\ seek(b, b.position) = ClampLength(VSub(Zero, b.velocity), maxForce)
    ]_vars

\* The first agent has had its Scattered flock() while exactly on top of
\* the other agent and of the active pointer: no force, no mark.
C18_Witness ==
  /\ pc = "flock"
  /\ idx = 2
  /\ isScattered
  /\ mouseActive
  /\ boids[1].position = mousePos
  /\ boids[2].position = boids[1].position
  /\ boids[2].velocity # boids[1].velocity
  /\ boids[1].acceleration = Zero
  /\ ~boids[1].isNearMouse

(***************************************************************************)
(* Mouse repulsion                                                         *)
(***************************************************************************)
\* Units a computed force may fall short of the exact one, per component
\* and in length, through the truncations of the fixed-point arithmetic.
ForceTolerance == 2

\* min(mouseRepelStrength * (1 - d / mouseRepelRadius), 4 * maxForce) at
\* distance d, rounded up.
RepelMagnitude(d) ==
  LET strength == mouseRepelStrength
                    - ((mouseRepelStrength * d) \div mouseRepelRadius)
  IN IF strength < 4 * maxForce THEN strength ELSE 4 * maxForce

\* Vector f has the direction of vector v, of length about d, and the
\* length m, up to the tolerance.
AlongWithLength(f, v, d, m) ==
  /\ NotLongerThan(f, m)
  /\ ~ShorterThan(f, m - ForceTolerance) \/ m <= ForceTolerance
  /\ f.x * v.x >= 0 /\ f.y * v.y >= 0 /\ f.z * v.z >= 0
  /\ Abs(f.x * d - v.x * m) <= ForceTolerance * d
  /\ Abs(f.y * d - v.y * m) <= ForceTolerance * d
  /\ Abs(f.z * d - v.z * m) <= ForceTolerance * d

C20_OrderIndependent ==
  pc = "idle" =>
    boids = FrameEnd(frameStart, mousePos, mouseActive, isScattered)

\* A Scattered frame with the pointer active has ended after both loops
\* took the agents from the last to the first, the first agent having had
\* a neighbour inside its separation radius, and the swarm has changed.
C20_Witness ==
  /\ pc = "idle"
  /\ NumBoids > 1
  /\ visited[1] = NumBoids
  /\ visited[NumBoids + 1] = NumBoids
  /\ isScattered
  /\ mouseActive
  /\ Neighbours(frameStart, 1, separationRadius) # {}
  /\ \A i \in Boids : boids[i].position # frameStart[i].position

(***************************************************************************)
(* Velocity in the Formed mode                                             *)
(***************************************************************************)
\* The damping factor update() selects, in hundredths, for an agent at
\* position p with home h: 0.85 below 20, 0.95 below 50, 1 otherwise.
DampingFactor(p, h) ==
  IF ShorterThan(VSub(p, h), 2000) THEN 85
  ELSE IF ShorterThan(VSub(p, h), 5000) THEN 95
  ELSE 100

\* C21: update() in a Formed frame finds its agent with zero velocity and
\* leaves it with this frame's mouse-repulsion acceleration times the
\* damping factor of its distance to home; that velocity is at most
\* 4 * maxForce long and is zero when the pointer is inactive or at
\* mouseRepelRadius or more from the agent.
C21_FormedVelocity ==
  [][ (pc = "update" /\ ~isScattered) =>
        LET b == boids[idx]
            a == boids'[idx]
        IN /\ b.velocity = Zero
           /\ b.acceleration =
                IF mouseActive THEN mouseRepel(b, mousePos) ELSE Zero
           /\ a.velocity =
                VMul(b.acceleration, DampingFactor(b.position, b.homePosition), 100)
           /\ NotLongerThan(a.velocity, 4 * maxForce)
           /\ (~mouseActive \/ ~Within(b.position, mousePos, mouseRepelRadius))
                => a.velocity = Zero
    ]_vars

\* In a Formed frame the first agent, inside the near damping band and
\* pushed by the pointer, has had its update() and moves.
C21_Witness ==
  /\ pc = "update"
  /\ idx = 2
  /\ ~isScattered
  /\ mouseActive
  /\ boids[1].velocity # Zero
  /\ Within(boids[1].position, boids[1].homePosition, dampNearDist)

(***************************************************************************)
(* Positions at the end of a frame                                         *)
(***************************************************************************)
\* Every coordinate of p lies in [-boundarySize, +boundarySize].
InsideBoundary(p) ==
  /\ -boundarySize <= p.x /\ p.x <= boundarySize
  /\ -boundarySize <= p.y /\ p.y <= boundarySize
  /\ -boundarySize <= p.z /\ p.z <= boundarySize

\* C22: once update() has run for an agent, and so for every agent at the
\* end of the frame, every coordinate of its position lies in
\* [-boundarySize, +boundarySize], in either mode and whatever the pointer.
C22_PositionInsideBoundary ==
  \A i \in Boids :
    (pc = "idle" \/ (pc = "update" /\ i < idx)) =>
      InsideBoundary(boids[i].position)

\* A frame has ended with an agent that crossed the boundary in it and now
\* sits on the opposite face, still moving.
C22_Witness ==
  /\ pc = "idle"
  /\ \E i \in Boids :
       /\ boids[i].velocity # Zero
       /\ \/ boids[i].position.x = -boundarySize /\ boids[i].velocity.x > 0
          \/ boids[i].position.y = boundarySize /\ boids[i].velocity.y < 0

(***************************************************************************)
(* The rest state                                                          *)
(***************************************************************************)
\* C23: as long as no pointer event has been handled the mode is Formed,
\* scatterTimer is 0, and at the end of every frame every agent whose home
\* lies inside the boundary is at its homePosition with zero velocity.
C23_RestStable ==
  mouseEvents = 0 =>
    /\ ~isScattered
    /\ scatterTimer = 0
    /\ ~mouseActive
    /\ pc = "idle" =>
         \A i \in Boids :
           InsideBoundary(boids[i].homePosition) =>
             /\ boids[i].position = boids[i].homePosition
             /\ boids[i].velocity = Zero

\* A frame has ended without any pointer event, the agents having been
\* created on homes inside the boundary.
C23_Witness ==
  /\ pc = "idle"
  /\ mouseEvents = 0
  /\ \A i \in Boids :
       /\ InsideBoundary(boids[i].homePosition)
       /\ boids[i].position = boids[i].homePosition

\* ---------------------------------------------------------------------
\* Claims about the constellation sketch
\* ---------------------------------------------------------------------

\* A step that is a call of toggleState().
Toggled == toggles' = toggles + 1

\* The start position of every node is what it was.
StartsUnchanged ==
  /\ DOMAIN nodes' = DOMAIN nodes
  /\ \A i \in DOMAIN nodes :
       /\ nodes'[i].startX = nodes[i].startX
       /\ nodes'[i].startY = nodes[i].startY
       /\ nodes'[i].startZ = nodes[i].startZ

\* C24: toggleState() called while a transition is in progress is
\* ignored: transitionDirection, transitionProgress, isFormed,
\* isTransitioning and the start position of every node are unchanged.
C24_ToggleIgnoredInTransition ==
  [][(Toggled /\ isTransitioning) =>
       /\ UNCHANGED << transitionDirection, transitionProgress,
                       isFormed, isTransitioning >>
       /\ StartsUnchanged]_vars

\* Two calls of toggleState() and the first forming transition still
\* runs: the second call came while it was in progress.
C24_Witness ==
  /\ toggles = 2
  /\ isTransitioning
  /\ transitionDirection = 1
  /\ ~isFormed
  /\ transitionProgress > 0
  /\ nodes # << >>

\* C25: transitionProgress is within [0, 1]; when no transition is in
\* progress it is 1 if isFormed and 0 if not; a transition started from
\* floating runs with direction +1, one started from formed with -1.
C25_ProgressAndDirection ==
  /\ transitionProgress \in 0 .. ProgressUnit
  /\ ~isTransitioning =>
        transitionProgress = (IF isFormed THEN ProgressUnit ELSE 0)
  /\ isTransitioning =>
        transitionDirection = (IF isFormed THEN -1 ELSE 1)

\* Formed for the second time, after a release and a resize.
C25_Witness ==
  /\ toggles = 3
  /\ resizes = 1
  /\ isFormed
  /\ ~isTransitioning
  /\ transitionProgress = ProgressUnit

\* C26: with frames that keep arriving a positive time apart, every
\* started transition completes, isFormed keeps its value while the
\* transition runs, and at the step that ends it isFormed becomes the
\* negation of that value.
C26_TransitionCompletes ==
  /\ isTransitioning ~> ~isTransitioning
  /\ [][(isTransitioning /\ isTransitioning') => isFormed' = isFormed]_vars
  /\ [][(isTransitioning /\ ~isTransitioning') => isFormed' = ~isFormed]_vars

\* A forming and then a releasing transition have both completed.
C26_Witness ==
  /\ toggles = 2
  /\ transitionDirection = -1
  /\ ~isTransitioning
  /\ ~isFormed
  /\ nodes # << >>

\* The largest breathing offset, 0.3 * 0.05, in units.
breatheBound == (15 * Unit) \div 1000

\* C27: when a forming transition has completed (isFormed, no transition
\* in progress, no resize since), every node is at its target: x and y
\* within the breathing offset of targetX and targetY, and z equal to
\* targetZ, whatever the frame timing was.
C27_FormedAtTarget ==
  (isFormed /\ ~isTransitioning /\ resizes = 0) =>
    \A i \in DOMAIN nodes :
      /\ Abs(nodes[i].x - nodes[i].targetX) <= breatheBound
      /\ Abs(nodes[i].y - nodes[i].targetY) <= breatheBound
      /\ nodes[i].z = nodes[i].targetZ

\* C28: every edge buildEdges() returns, proximity or hub, joins two
\* distinct points of the same letterIndex, and no unordered pair of
\* points appears more than once in the list.
C28_EdgesWithinLetters ==
  \A k \in DOMAIN edges :
    LET i == edges[k][1]
        j == edges[k][2]
    IN /\ i \in DOMAIN textPoints
       /\ j \in DOMAIN textPoints
       /\ i # j
       /\ textPoints[i].letterIndex = textPoints[j].letterIndex
       /\ \A l \in DOMAIN edges :
            l # k => { edges[l][1], edges[l][2] } # { i, j }

\* An edge list with proximity edges and a hub edge (one between points
\* out of range of each other), over points of both letters.
C28_Witness ==
  /\ \E k \in DOMAIN edges :
       InEdgeRange(textPoints[edges[k][1]], textPoints[edges[k][2]],
                   neighborRadius)
  /\ \E k \in DOMAIN edges :
       ~InEdgeRange(textPoints[edges[k][1]], textPoints[edges[k][2]],
                    neighborRadius)
  /\ \E k, l \in DOMAIN edges :
       textPoints[edges[k][1]].letterIndex # textPoints[edges[l][1]].letterIndex

\* C29: in the edge list buildEdges(points, maxEdges, r) returns, no
\* point is an endpoint of more than maxEdges edges.
C29_DegreeWithinCap ==
  \A i \in DOMAIN textPoints : Degree(edges, i) <= edgeCap

\* C30: after init and after any resizes, both endpoints of every edge of
\* the current edge list are indices of the node array, and the node array
\* never changes length.
C30_EdgesIndexNodes ==
  /\ [](\A k \in DOMAIN edges :
          edges[k][1] \in DOMAIN nodes /\ edges[k][2] \in DOMAIN nodes)
  /\ [][Len(nodes') = Len(nodes)]_vars

=============================================================================
